---- MODULE Spec2Model ----
(***************************************************************************)
(* The Watch panel of the debugger (DolphinQt/Debugger/WatchWidget.cpp):   *)
(* a table over the debug interface's watch list, the edit dispatch of     *)
(* its cells, Load/Save of the per-game ini section and the gating of the  *)
(* Load/Save actions by the emulation state.                               *)
(*                                                                         *)
(* A 32-bit unsigned value is the pair <<hi, lo>> of its 16-bit halves, so *)
(* that the whole range 0 .. 2^32-1 and the overflow of a parse are exact. *)
(* A text (QString) is a sequence of one-character strings.                *)
(***************************************************************************)
EXTENDS Integers, Sequences, FiniteSets, TLC

VARIABLES
  watches,      \* PowerPC::debug_interface's watch list: Seq of [name, address]
  mem,          \* emulated memory, one 32-bit word per RAM address
  running,      \* Core::IsRunning()
  debugMode,    \* Settings::IsDebugModeEnabled()
  loadEnabled,  \* m_load->isEnabled()
  saveEnabled,  \* m_save->isEnabled()
  m_updating,   \* WatchWidget::m_updating
  table,        \* m_table: [rowCount, rows], a row = one entry's five items
  pc,           \* "Idle"; "Update" inside WatchWidget::Update; "Handler"
                \* inside a handler, outside Update
  handler,      \* the handler that is executing, and for OnItemChanged the
                \* row key and column of its item: [name, key, column]
  pending,      \* Update() calls the executing handler still has to make
  out,          \* what the executing handler has emitted so far:
                \* [error, writes, bp]
  file,         \* the game's ini file: [exists, hasSection, lines]
  saved         \* the watch list as OnSave last serialized it (history)

vars == <<watches, mem, running, debugMode, loadEnabled, saveEnabled,
          m_updating, table, pc, handler, pending, out, file, saved>>

----------------------------------------------------------------------------
(* Bounds of the model *)

MaxWatches == 2

----------------------------------------------------------------------------
(* 32-bit values and texts *)

Half == 256 * 256

Zero == <<0, 0>>

Blank == <<>>

HexDigits == <<"0","1","2","3","4","5","6","7","8","9","a","b","c","d","e","f">>

\* The characters texts are made of.
Alphabet == {HexDigits[k] : k \in 1..16} \cup {"z", " "}

\* The value of a character as a digit; 36 for a character that is no digit
\* of any base up to 16.
DigitTable ==
  [c \in Alphabet |->
     IF \E k \in 1..16 : HexDigits[k] = c
       THEN (CHOOSE k \in 1..16 : HexDigits[k] = c) - 1
       ELSE 36]

DigitValue(c) == DigitTable[c]

\* value * base + digit on the halves; ok is cleared by a character that is
\* no digit of the base and by a result above 0xFFFFFFFF.
RECURSIVE Accumulate(_, _, _)
Accumulate(text, base, acc) ==
  IF text = <<>> \/ ~acc.ok THEN acc
  ELSE LET d  == DigitValue(Head(text))
           lo == acc.value[2] * base + d
           hi == acc.value[1] * base + (lo \div Half)
       IN  IF d >= base \/ hi >= Half
             THEN [ok |-> FALSE, value |-> Zero]
             ELSE Accumulate(Tail(text), base,
                             [ok |-> TRUE, value |-> <<hi, lo % Half>>])

\* QString::toUInt(&ok, base): the empty text, a character that is no digit
\* of the base and a value above 0xFFFFFFFF all give ok = false and 0.
ToUInt(text, base) ==
  IF text = <<>> THEN [ok |-> FALSE, value |-> Zero]
  ELSE Accumulate(text, base, [ok |-> TRUE, value |-> Zero])

RECURSIVE HexOf(_, _)
HexOf(n, width) ==
  IF width = 0 THEN <<>>
  ELSE Append(HexOf(n \div 16, width - 1), HexDigits[(n % 16) + 1])

\* QStringLiteral("%1").arg(v, 8, 16, QLatin1Char('0'))
ToHex8(v) == HexOf(v[1], 4) \o HexOf(v[2], 4)

\* QString::number(v): decimal, no padding.
RECURSIVE ToDecimal(_)
ToDecimal(v) ==
  LET qhi  == v[1] \div 10
      rest == (v[1] % 10) * Half + v[2]
      qlo  == rest \div 10
      d    == HexDigits[(rest % 10) + 1]
  IN  IF qhi = 0 /\ qlo = 0 THEN <<d>>
      ELSE Append(ToDecimal(<<qhi + (qlo \div Half), qlo % Half>>), d)

----------------------------------------------------------------------------
(* Inputs *)

T_1000  == <<"1","0","0","0">>
T_zzzz  == <<"z","z","z","z">>
T_max   == <<"4","2","9","4","9","6","7","2","9","5">>
T_over  == <<"4","2","9","4","9","6","7","2","9","6">>

\* Texts typed into a label cell, and names given to AddWatch.
NameTexts == {Blank, T_1000, T_zzzz}

\* Texts typed into an address, hexadecimal or decimal cell.
NumberTexts == {Blank, T_1000, T_zzzz, T_max, T_over}

\* The addresses PowerPC::HostIsRAMAddress accepts.
RamAddrs == {ToUInt(T_1000, 16).value}

\* Addresses other widgets hand to AddWatch.
AddAddrs == {Zero, ToUInt(T_1000, 16).value}

\* Core::State values carried by EmulationStateChanged.
CoreStates == {"Uninitialized", "Starting", "Running"}

----------------------------------------------------------------------------
(* The watch store (Common/Debug/Watches) and the memory accessor *)

Watch(address, name) == [name |-> name, address |-> address]

\* Watches::SetWatch: a new entry at the end of the list.
SetWatch(ws, address, name) == Append(ws, Watch(address, name))

\* Watches::RemoveWatch(index), index counted from 0.
RemoveWatch(ws, index) ==
  SubSeq(ws, 1, index) \o SubSeq(ws, index + 2, Len(ws))

UpdateWatchName(ws, index, name) ==
  [ws EXCEPT ![index + 1].name = name]

UpdateWatchAddress(ws, index, address) ==
  [ws EXCEPT ![index + 1].address = address]

GetWatch(ws, index) == ws[index + 1]

HostIsRAMAddress(address) == address \in RamAddrs

HostRead_U32(m, address) == m[address]

\* A write outside RAM changes no RAM word.
HostWrite_U32(m, value, address) ==
  IF address \in RamAddrs THEN [m EXCEPT ![address] = value] ELSE m

\* The text HostGetString(address, 32) reads, kept as one opaque token.
HostGetString(m, address) == <<"HostGetString">>

\* Watches::SaveWatchesToStrings: one line per entry, the address in
\* hexadecimal, a space, the name.
WatchLine(w) == ToHex8(w.address) \o <<" ">> \o w.name

RECURSIVE SaveWatchesToStrings(_)
SaveWatchesToStrings(ws) ==
  IF ws = <<>> THEN <<>>
  ELSE <<WatchLine(Head(ws))>> \o SaveWatchesToStrings(Tail(ws))

RECURSIVE UpToSpace(_)
UpToSpace(text) ==
  IF text = <<>> \/ Head(text) = " " THEN <<>>
  ELSE <<Head(text)>> \o UpToSpace(Tail(text))

RECURSIVE AfterSpace(_)
AfterSpace(text) ==
  IF text = <<>> THEN <<>>
  ELSE IF Head(text) = " " THEN Tail(text)
  ELSE AfterSpace(Tail(text))

ParseWatchLine(line) ==
  Watch(ToUInt(UpToSpace(line), 16).value, AfterSpace(line))

\* Watches::LoadWatchesFromStrings appends one entry per line.
RECURSIVE LoadWatchesFromStrings(_, _)
LoadWatchesFromStrings(ws, lines) ==
  IF lines = <<>> THEN ws
  ELSE LoadWatchesFromStrings(Append(ws, ParseWatchLine(Head(lines))),
                              Tail(lines))

ClearWatches(ws) == <<>>

\* IniFile::Load of the game's ini file succeeds when the file exists.
IniLoad(f) == f.exists

\* IniFile::GetLines("Watches", &lines): whether the section is there.
IniHasWatches(f) == f.hasSection

\* IniFile::SetLines("Watches", lines) followed by IniFile::Save.
IniSaveWatches(f, lines) ==
  [exists |-> TRUE, hasSection |-> TRUE, lines |-> lines]

----------------------------------------------------------------------------
(* WatchWidget::Update: the table built from the watch list *)

\* Mutant: the values are shown for every RAM address, running or not.
ShowsValuesWhenRam(run, address) == HostIsRAMAddress(address)

\* Lines 151-153: the three value cells get a text.
ShowsValues(run, address) == run /\ HostIsRAMAddress(address)

\* Line 148: the address is drawn in red.
IsInvalidStyle(run, address) == ~run \/ ~HostIsRAMAddress(address)

\* Lines 137-178: the five items of entry i (counted from 0).
EntryRow(ws, m, run, i) ==
  LET entry == GetWatch(ws, i)
      live  == ShowsValues(run, entry.address)
  IN  [key     |-> i,
       label   |-> entry.name,
       address |-> ToHex8(entry.address),
       hex     |-> IF live THEN ToHex8(HostRead_U32(m, entry.address))
                           ELSE Blank,
       decimal |-> IF live THEN ToDecimal(HostRead_U32(m, entry.address))
                           ELSE Blank,
       string  |-> IF live THEN HostGetString(m, entry.address) ELSE Blank,
       red     |-> IsInvalidStyle(run, entry.address)]

\* Lines 181-191: the trailing row, its label item keyed -1.
NewRow ==
  [key |-> -1, label |-> Blank, address |-> Blank, hex |-> Blank,
   decimal |-> Blank, string |-> Blank, red |-> FALSE]

RECURSIVE EntryRows(_, _, _, _)
EntryRows(ws, m, run, n) ==
  IF n = 0 THEN <<>>
  ELSE Append(EntryRows(ws, m, run, n - 1), EntryRow(ws, m, run, n - 1))

\* Lines 124-191: the rows Update leaves in the table.
RenderRows(ws, m, run) == Append(EntryRows(ws, m, run, Len(ws)), NewRow)

\* Lines 122-126: the table right after clear() and setRowCount(size + 1).
ClearedTable(ws) == [rowCount |-> Len(ws) + 1, rows |-> <<>>]

Item(hasKey, key, column, text) ==
  [hasKey |-> hasKey, key |-> key, column |-> column, text |-> text]

\* The items setItem puts into one row, in the order of lines 174-178 and
\* 184-190; each setItem emits itemChanged for its item. The four no_edit
\* items of the trailing row carry no Qt::UserRole data.
RowItems(row) ==
  IF row.key = -1
    THEN <<Item(TRUE, -1, 0, row.label), Item(FALSE, 0, 0, Blank),
           Item(FALSE, 0, 0, Blank), Item(FALSE, 0, 0, Blank),
           Item(FALSE, 0, 0, Blank)>>
    ELSE <<Item(TRUE, row.key, 0, row.label),
           Item(TRUE, row.key, 1, row.address),
           Item(TRUE, row.key, 2, row.hex),
           Item(TRUE, row.key, 3, row.decimal),
           Item(TRUE, row.key, 4, row.string)>>

RECURSIVE TableItems(_)
TableItems(rows) ==
  IF rows = <<>> THEN <<>>
  ELSE RowItems(Head(rows)) \o TableItems(Tail(rows))

\* Mutant: Update returns without clearing m_updating.
UpdatingLeftSet == TRUE

\* Line 193: the value m_updating has when Update returns.
UpdatingAtReturn == FALSE

\* Line 120: the value m_updating has while Update executes.
UpdatingAtEntry == TRUE

----------------------------------------------------------------------------
(* WatchWidget::OnItemChanged as a function of the state it reads *)

\* What one delivery of itemChanged does: the watch list and the memory it
\* leaves, the writes it issued, whether it raised the error box, and the
\* number of Update() calls it made.
Effect(ws, m, writes, error, updates) ==
  [watches |-> ws, mem |-> m, writes |-> writes, error |-> error,
   updates |-> updates]

\* Lines 263-264.
Ignored(updating, item) == updating \/ ~item.hasKey

\* Mutant: every column is parsed in base 10.
BaseAlwaysDecimal(column) == 10

\* Line 298: the base of the parse.
BaseOf(column) == IF column < 3 THEN 16 ELSE 10

\* Mutant: an empty label renames the entry instead of deleting it.
LabelEditedKeepsEntry(item, ws, m) ==
  Effect(UpdateWatchName(ws, item.key, item.text), m, <<>>, FALSE, 1)

\* Lines 284-289.
LabelEdited(item, ws, m) ==
  IF item.text = Blank
    THEN Effect(RemoveWatch(ws, item.key), m, <<>>, FALSE, 2)
    ELSE Effect(UpdateWatchName(ws, item.key, item.text), m, <<>>, FALSE, 1)

\* Mutant: the value is written only to an address that is RAM.
NumberEditedRamOnly(item, ws, m) ==
  LET parsed == ToUInt(item.text, BaseOf(item.column))
      target == GetWatch(ws, item.key).address
  IN  IF parsed.ok
        THEN IF item.column = 1
               THEN Effect(UpdateWatchAddress(ws, item.key, parsed.value),
                           m, <<>>, FALSE, 1)
               ELSE IF HostIsRAMAddress(target)
                 THEN Effect(ws, HostWrite_U32(m, parsed.value, target),
                             <<[value |-> parsed.value, address |-> target]>>,
                             FALSE, 1)
                 ELSE Effect(ws, m, <<>>, FALSE, 1)
        ELSE Effect(ws, m, <<>>, TRUE, 1)

\* Lines 293-312.
NumberEdited(item, ws, m) ==
  LET parsed == ToUInt(item.text, BaseOf(item.column))
      target == GetWatch(ws, item.key).address
  IN  IF parsed.ok
        THEN IF item.column = 1
               THEN Effect(UpdateWatchAddress(ws, item.key, parsed.value),
                           m, <<>>, FALSE, 1)
               ELSE Effect(ws, HostWrite_U32(m, parsed.value, target),
                           <<[value |-> parsed.value, address |-> target]>>,
                           FALSE, 1)
        ELSE Effect(ws, m, <<>>, TRUE, 1)

\* Mutant: the new watch is added at the address of the first RAM word.
NewRowEditedElsewhere(item, ws, m) ==
  IF item.text # Blank
    THEN Effect(SetWatch(ws, CHOOSE a \in RamAddrs : TRUE, item.text), m,
                <<>>, FALSE, 1)
    ELSE Effect(ws, m, <<>>, FALSE, 0)

\* Lines 269-278.
NewRowEdited(item, ws, m) ==
  IF item.text # Blank
    THEN Effect(SetWatch(ws, Zero, item.text), m, <<>>, FALSE, 1)
    ELSE Effect(ws, m, <<>>, FALSE, 0)

\* Lines 261-317.
Dispatch(updating, item, ws, m) ==
  IF Ignored(updating, item) THEN Effect(ws, m, <<>>, FALSE, 0)
  ELSE IF item.key = -1 THEN NewRowEdited(item, ws, m)
  ELSE IF item.column = 0 THEN LabelEdited(item, ws, m)
  ELSE IF item.column \in {1, 2, 3} THEN NumberEdited(item, ws, m)
  ELSE Effect(ws, m, <<>>, FALSE, 1)

\* The deliveries of itemChanged made while Update fills the table, one
\* after the other, each on the state the one before left.
RECURSIVE Deliver(_, _, _)
Deliver(items, updating, eff) ==
  IF items = <<>> THEN eff
  ELSE LET e == Dispatch(updating, Head(items), eff.watches, eff.mem)
       IN  Deliver(Tail(items), updating,
                   Effect(e.watches, e.mem, eff.writes \o e.writes,
                          eff.error \/ e.error, eff.updates + e.updates))

----------------------------------------------------------------------------
(* The state machine *)

\* A handler runs from the event loop ("Idle") to its return. Its body up
\* to the first call of Update is one step; each Update is entered in one
\* step (or with the body) and filled in the next; the return to the event
\* loop is the last step. Nothing else runs in between: the panel lives on
\* the single GUI thread.

Quiet == [error |-> FALSE, writes |-> <<>>, bp |-> <<>>]

Emitted(error, writes) == [error |-> error, writes |-> writes, bp |-> <<>>]

NoHandler == [name |-> "None", key |-> -1, column |-> -1]

Handler(name) == [name |-> name, key |-> -1, column |-> -1]

NoFile == [exists |-> FALSE, hasSection |-> FALSE, lines |-> <<>>]

FileWithoutSection == [exists |-> TRUE, hasSection |-> FALSE, lines |-> <<>>]

\* The state the constructor leaves (lines 24-64): no watch, the actions
\* disabled (lines 91-92), the table built once by Update (line 63).
Init ==
  /\ watches = <<>>
  /\ mem = [a \in RamAddrs |-> Zero]
  /\ running = FALSE
  /\ debugMode \in BOOLEAN
  /\ loadEnabled = FALSE
  /\ saveEnabled = FALSE
  /\ m_updating = UpdatingAtReturn
  /\ table = [rowCount |-> 1, rows |-> RenderRows(<<>>, mem, FALSE)]
  /\ pc = "Idle"
  /\ handler = NoHandler
  /\ pending = 0
  /\ out = Quiet
  /\ file \in {NoFile, FileWithoutSection}
  /\ saved = [valid |-> FALSE, list |-> <<>>]

\* Entry into Update (lines 118-126) on the watch list ws, with n - 1
\* further calls of Update left to the handler.
CallUpdate(n, ws) ==
  /\ m_updating' = UpdatingAtEntry
  /\ table' = ClearedTable(ws)
  /\ pc' = "Update"
  /\ pending' = n - 1

\* The handler's body is done: it calls Update n times and returns.
ThenUpdate(n, ws) ==
  IF n > 0 THEN CallUpdate(n, ws)
  ELSE /\ pc' = "Handler"
       /\ pending' = 0
       /\ UNCHANGED <<m_updating, table>>

\* Lines 128-194: Update fills the table and returns. Every setItem emits
\* itemChanged, which runs OnItemChanged on the item just set.
UpdateRun ==
  /\ pc = "Update"
  /\ \E rows \in {RenderRows(watches, mem, running)} :
     \E eff \in {Deliver(TableItems(rows), m_updating,
                         Effect(watches, mem, <<>>, FALSE, 0))} :
         /\ watches' = eff.watches
         /\ mem' = eff.mem
         /\ out' = [out EXCEPT !.error = @ \/ eff.error,
                               !.writes = @ \o eff.writes]
         /\ table' = [rowCount |-> table.rowCount, rows |-> rows]
         /\ m_updating' = UpdatingAtReturn
         /\ pending' = pending + eff.updates
         /\ pc' = "Handler"
  /\ UNCHANGED <<running, debugMode, loadEnabled, saveEnabled, handler, file,
                 saved>>

\* Back in the handler after a call of Update, with a call still to make
\* (line 315 after DeleteWatch at line 286).
HandlerContinues ==
  /\ pc = "Handler"
  /\ pending > 0
  /\ CallUpdate(pending, watches)
  /\ UNCHANGED <<watches, mem, running, debugMode, loadEnabled, saveEnabled,
                 handler, out, file, saved>>

\* The handler returns to the event loop.
Return ==
  /\ pc = "Handler"
  /\ pending = 0
  /\ pc' = "Idle"
  /\ handler' = NoHandler
  /\ out' = Quiet
  /\ UNCHANGED <<watches, mem, running, debugMode, loadEnabled, saveEnabled,
                 m_updating, table, pending, file, saved>>

\* The columns of a row the user can edit: the string item and the four
\* no_edit items are not editable (lines 172, 189).
EditableColumns(row) == IF row.key = -1 THEN {0} ELSE {0, 1, 2, 3}

TextsFor(column) == IF column = 0 THEN NameTexts ELSE NumberTexts

\* The user commits text t in column c of table row r: itemChanged, and
\* with it OnItemChanged (lines 261-317), runs on that item.
ItemEdited(r, c, t) ==
  /\ pc = "Idle"
  /\ r \in 1..Len(table.rows)
  /\ c \in EditableColumns(table.rows[r])
  /\ t \in TextsFor(c)
  /\ table.rows[r].key = -1 /\ t # Blank => Len(watches) < MaxWatches
  /\ \E eff \in {Dispatch(m_updating, Item(TRUE, table.rows[r].key, c, t),
                           watches, mem)} :
         /\ watches' = eff.watches
         /\ mem' = eff.mem
         /\ out' = Emitted(eff.error, eff.writes)
         /\ ThenUpdate(eff.updates, eff.watches)
  /\ handler' = [name |-> "OnItemChanged", key |-> table.rows[r].key,
                 column |-> c]
  /\ UNCHANGED <<running, debugMode, loadEnabled, saveEnabled, file, saved>>

\* "Delete Watch" of the context menu on table row r (lines 237-247), and
\* DeleteWatch (lines 319-323).
DeleteWatch(r) ==
  /\ pc = "Idle"
  /\ r \in 1..Len(table.rows)
  /\ table.rows[r].key >= 0
  /\ watches' = RemoveWatch(watches, table.rows[r].key)
  /\ handler' = Handler("DeleteWatch")
  /\ CallUpdate(1, watches')
  /\ UNCHANGED <<mem, running, debugMode, loadEnabled, saveEnabled, out,
                 file, saved>>

\* "Add Memory Breakpoint" on table row r (lines 248-249, 325-328).
AddWatchBreakpoint(r) ==
  /\ pc = "Idle"
  /\ r \in 1..Len(table.rows)
  /\ table.rows[r].key >= 0
  /\ out' = [Quiet EXCEPT
               !.bp = <<GetWatch(watches, table.rows[r].key).address>>]
  /\ handler' = Handler("AddWatchBreakpoint")
  /\ ThenUpdate(0, watches)
  /\ UNCHANGED <<watches, mem, running, debugMode, loadEnabled, saveEnabled,
                 file, saved>>

\* "Update" of the context menu (line 256).
MenuUpdate ==
  /\ pc = "Idle"
  /\ handler' = Handler("Update")
  /\ CallUpdate(1, watches)
  /\ UNCHANGED <<watches, mem, running, debugMode, loadEnabled, saveEnabled,
                 out, file, saved>>

\* AddWatch called by another widget (lines 330-333).
AddWatch(name, addr) ==
  /\ pc = "Idle"
  /\ Len(watches) < MaxWatches
  /\ watches' = SetWatch(watches, addr, name)
  /\ handler' = Handler("AddWatch")
  /\ ThenUpdate(0, watches')
  /\ UNCHANGED <<mem, running, debugMode, loadEnabled, saveEnabled, out,
                 file, saved>>

\* Mutant: the lines are loaded without ClearWatches.
LoadedWatchesKeepsOld(ws, f) ==
  IF IniHasWatches(f) THEN LoadWatchesFromStrings(ws, f.lines) ELSE ws

\* Lines 213-217: the watch list OnLoad leaves.
LoadedWatches(ws, f) ==
  IF IniHasWatches(f)
    THEN LoadWatchesFromStrings(ClearWatches(ws), f.lines)
    ELSE ws

\* The Load action is triggered (lines 201-220).
OnLoad ==
  /\ pc = "Idle"
  /\ loadEnabled
  /\ handler' = Handler("OnLoad")
  /\ IF ~IniLoad(file)
       THEN /\ watches' = watches
            /\ ThenUpdate(0, watches)
       ELSE /\ watches' = LoadedWatches(watches, file)
            /\ ThenUpdate(1, watches')
  /\ UNCHANGED <<mem, running, debugMode, loadEnabled, saveEnabled, out,
                 file, saved>>

\* Mutant: SetLines without the ini.Save that stores the file.
OnSaveNotStored ==
  /\ pc = "Idle"
  /\ saveEnabled
  /\ file' = file
  /\ saved' = [valid |-> TRUE, list |-> watches]
  /\ handler' = Handler("OnSave")
  /\ ThenUpdate(0, watches)
  /\ UNCHANGED <<watches, mem, running, debugMode, loadEnabled, saveEnabled,
                 out>>

\* The Save action is triggered (lines 222-229).
OnSave ==
  /\ pc = "Idle"
  /\ saveEnabled
  /\ file' = IniSaveWatches(file, SaveWatchesToStrings(watches))
  /\ saved' = [valid |-> TRUE, list |-> watches]
  /\ handler' = Handler("OnSave")
  /\ ThenUpdate(0, watches)
  /\ UNCHANGED <<watches, mem, running, debugMode, loadEnabled, saveEnabled,
                 out>>

\* Lines 42-43: the handler goes on only in debug mode.
HandlesStateChange(debug) == debug

\* Settings::EmulationStateChanged(state) arrives, Core::IsRunning() being
\* isRunning from now on (lines 41-50).
EmulationStateChanged(state, isRunning) ==
  /\ pc = "Idle"
  /\ state = "Running" => isRunning
  /\ state = "Uninitialized" => ~isRunning
  /\ running' = isRunning
  /\ handler' = Handler("EmulationStateChanged")
  /\ IF ~HandlesStateChange(debugMode)
       THEN /\ UNCHANGED <<loadEnabled, saveEnabled>>
            /\ ThenUpdate(0, watches)
       ELSE /\ loadEnabled' = isRunning
            /\ saveEnabled' = isRunning
            /\ ThenUpdate(IF state # "Starting" THEN 1 ELSE 0, watches)
  /\ UNCHANGED <<watches, mem, debugMode, out, file, saved>>

\* Settings::DebugModeToggled(enabled) (lines 55-56): the panel is shown or
\* hidden, nothing else.
DebugModeToggled(enabled) ==
  /\ pc = "Idle"
  /\ debugMode' = enabled
  /\ handler' = Handler("DebugModeToggled")
  /\ ThenUpdate(0, watches)
  /\ UNCHANGED <<watches, mem, running, loadEnabled, saveEnabled, out, file,
                 saved>>

Rows == 1..(MaxWatches + 1)

\* The steps every specification has: the handlers of the panel but OnSave.
PanelStep ==
  \/ UpdateRun
  \/ HandlerContinues
  \/ Return
  \/ \E r \in Rows, c \in 0..3, t \in NumberTexts \cup NameTexts :
        ItemEdited(r, c, t)
  \/ \E r \in Rows : DeleteWatch(r)
  \/ \E r \in Rows : AddWatchBreakpoint(r)
  \/ MenuUpdate
  \/ \E name \in NameTexts \ {Blank}, addr \in AddAddrs : AddWatch(name, addr)
  \/ OnLoad
  \/ \E state \in CoreStates, isRunning \in BOOLEAN :
        EmulationStateChanged(state, isRunning)
  \/ \E enabled \in BOOLEAN : DebugModeToggled(enabled)

Next == PanelStep \/ OnSave

Spec == Init /\ [][Next]_vars

\* The panel in a session that never saves: the ini file stays as found.
SpecPanel == Init /\ [][PanelStep]_vars

\* Load and Save among the edits of the watch list: label and address
\* edits, the new row, deletion, AddWatch and the emulation state; writes to
\* memory, the breakpoint request and the debug-mode toggle, which touch
\* neither the watch list nor the file, are left out.
PersistStep ==
  \/ UpdateRun
  \/ HandlerContinues
  \/ Return
  \/ \E r \in Rows, c \in 0..1, t \in NumberTexts \cup NameTexts :
        ItemEdited(r, c, t)
  \/ \E r \in Rows : DeleteWatch(r)
  \/ \E name \in NameTexts \ {Blank}, addr \in AddAddrs : AddWatch(name, addr)
  \/ OnLoad
  \/ OnSave
  \/ \E state \in CoreStates, isRunning \in BOOLEAN :
        EmulationStateChanged(state, isRunning)

SpecPersist == Init /\ [][PersistStep]_vars

----------------------------------------------------------------------------
(* What the claims expect, stated apart from the operators above *)

X1000 == <<0, 4096>>

D1000 == <<0, 1000>>

UMax == <<65535, 65535>>

\* The number a text of NumberTexts denotes in a base, if it denotes one
\* below 2^32: "1000" is 0x1000 in base 16 and 1000 in base 10;
\* "4294967295" is 2^32 - 1 in base 10 and above it in base 16; "", "zzzz"
\* and "4294967296" (2^32 in base 10) denote none.
Denotes(t, base) ==
  \/ t = T_1000 /\ base \in {10, 16}
  \/ t = T_max /\ base = 10

Denoted(t, base) ==
  IF t = T_max THEN UMax
  ELSE IF base = 16 THEN X1000 ELSE D1000

\* The user's edit of column c of table row r with text t, as a step.
EditStep(r, c, t) ==
  /\ pc = "Idle"
  /\ handler'.name = "OnItemChanged"
  /\ handler'.column = c
  /\ r \in 1..Len(table.rows)
  /\ handler'.key = table.rows[r].key
  /\ ItemEdited(r, c, t)

\* After its body, a handler changes neither the watch list nor memory.
RestOfHandlerKeeps ==
  pc # "Idle" => watches' = watches /\ mem' = mem

\* C1: an address edit (column 1 of an entry's row) with a text that is a
\* 32-bit hexadecimal number sets that entry's address to the number and
\* changes no other entry, no name and no memory, and writes nothing; with
\* any other text it raises the input error and leaves the watch list and
\* memory as they were, up to the handler's return.
C1_AddressEdit ==
  [][/\ RestOfHandlerKeeps
     /\ \A r \in Rows, t \in NumberTexts :
          EditStep(r, 1, t) =>
            LET i == table.rows[r].key
            IN  /\ mem' = mem
                /\ out'.writes = <<>>
                /\ IF Denotes(t, 16)
                     THEN /\ ~out'.error
                          /\ Len(watches') = Len(watches)
                          /\ \A k \in 1..Len(watches) :
                               /\ watches'[k].name = watches[k].name
                               /\ watches'[k].address =
                                    IF k = i + 1 THEN Denoted(t, 16)
                                    ELSE watches[k].address
                     ELSE /\ out'.error
                          /\ watches' = watches]_vars

C1_Witness ==
  /\ pc = "Update"
  /\ handler.name = "OnItemChanged" /\ handler.column = 1
  /\ ~out.error
  /\ Len(watches) = 2
  /\ watches[1].address = Zero
  /\ watches[2].address = X1000

\* C2: a value edit (column 2 hexadecimal, column 3 decimal, of an entry's
\* row) with a text that is a 32-bit number in the column's base issues
\* exactly one write, of that number, to the entry's address, whether or
\* not the target runs or the address is RAM, and leaves the watch list as
\* it was; any other text writes nothing, changes no memory and raises the
\* input error.
C2_ValueEdit ==
  [][/\ RestOfHandlerKeeps
     /\ \A r \in Rows, c \in {2, 3}, t \in NumberTexts :
          EditStep(r, c, t) =>
            LET i    == table.rows[r].key
                base == IF c = 2 THEN 16 ELSE 10
            IN  /\ watches' = watches
                /\ IF Denotes(t, base)
                     THEN /\ out'.writes =
                               <<[value   |-> Denoted(t, base),
                                  address |-> watches[i + 1].address]>>
                          /\ ~out'.error
                     ELSE /\ out'.writes = <<>>
                          /\ mem' = mem
                          /\ out'.error]_vars

C2_Witness ==
  /\ pc = "Update"
  /\ handler.name = "OnItemChanged" /\ handler.column = 3
  /\ ~running
  /\ out.writes = <<[value |-> D1000, address |-> Zero]>>

\* The list old with the entry at index i (from 0) taken out: one entry
\* fewer, the entries before i in place, those after i one index down.
IsWithout(new, old, i) ==
  /\ Len(new) = Len(old) - 1
  /\ \A k \in 1..Len(new) : new[k] = IF k <= i THEN old[k] ELSE old[k + 1]

\* C3: deleting entry i, by Delete Watch of the context menu or by an
\* empty text in the label cell of its row, removes that entry and no
\* other: the list is one shorter, the entries before i keep index, name
\* and address, those after i move down by one. A non-empty text in the
\* label cell changes the name of entry i and nothing else.
C3_DeleteOne ==
  [][/\ RestOfHandlerKeeps
     /\ \A r \in Rows :
          /\ pc = "Idle" /\ handler'.name = "DeleteWatch" /\ DeleteWatch(r) =>
               IsWithout(watches', watches, table.rows[r].key)
          /\ \A t \in NameTexts :
               EditStep(r, 0, t) /\ table.rows[r].key >= 0 =>
                 LET i == table.rows[r].key
                 IN  IF t = Blank
                       THEN IsWithout(watches', watches, i)
                       ELSE /\ Len(watches') = Len(watches)
                            /\ \A k \in 1..Len(watches) :
                                 /\ watches'[k].address = watches[k].address
                                 /\ watches'[k].name =
                                      IF k = i + 1 THEN t
                                      ELSE watches[k].name]_vars

C3_Witness ==
  /\ pc = "Update"
  /\ handler = [name |-> "OnItemChanged", key |-> 0, column |-> 0]
  /\ pending = 1
  /\ Len(watches) = 1

\* C4: a non-empty text t in the trailing row (row key -1) appends one
\* entry, named t at address 0, at the index that was the list's length,
\* changes no other entry, and is followed by an Update; an empty text
\* there leaves the watch list as it was.
C4_NewRow ==
  [][/\ RestOfHandlerKeeps
     /\ \A r \in Rows, t \in NameTexts :
          EditStep(r, 0, t) /\ table.rows[r].key = -1 =>
            IF t # Blank
              THEN /\ Len(watches') = Len(watches) + 1
                   /\ watches'[Len(watches) + 1] =
                        [name |-> t, address |-> Zero]
                   /\ \A k \in 1..Len(watches) : watches'[k] = watches[k]
                   /\ pc' = "Update"
              ELSE watches' = watches]_vars

C4_Witness ==
  /\ pc = "Update"
  /\ handler = [name |-> "OnItemChanged", key |-> -1, column |-> 0]
  /\ Len(watches) = 2
  /\ watches[2] = [name |-> T_zzzz, address |-> Zero]
  /\ watches[1].address = X1000

C6_Load ==
  [][pc = "Idle" /\ OnLoad =>
       IF file.exists /\ file.hasSection
         THEN /\ Len(watches') = Len(file.lines)
              /\ \A k \in 1..Len(file.lines) :
                   WatchLine(watches'[k]) = file.lines[k]
              /\ pc' = "Update"
         ELSE watches' = watches]_vars

C6_Witness ==
  /\ pc = "Update"
  /\ handler.name = "OnLoad"
  /\ file.hasSection
  /\ Len(file.lines) = 1
  /\ Len(watches) = 1

\* C7: a Load after a Save gives back the watch list as it was when it was
\* saved, names, addresses and order, whatever edits came in between.
C7_RoundTrip ==
  [][pc = "Idle" /\ saved.valid /\ OnLoad => watches' = saved.list]_vars

C7_Witness ==
  /\ pc = "Update"
  /\ handler.name = "OnLoad"
  /\ saved.valid
  /\ Len(saved.list) = 2
  /\ saved.list[1] # saved.list[2]
  /\ watches = saved.list

\* C8: the Load and Save actions are enabled only while the target runs.
C8_EnabledOnlyWhileRunning ==
  /\ loadEnabled => running
  /\ saveEnabled => running

\* C9: m_updating is set exactly while Update executes, on every path of
\* every handler; an itemChanged delivered while it is set changes neither
\* the watch list nor memory, emits nothing and starts no further Update;
\* so an edit made when the panel is idle is never dropped.
C9_UpdatingGuard ==
  [][/\ m_updating <=> pc = "Update"
     /\ m_updating' <=> pc' = "Update"
     /\ pc = "Update" =>
          /\ watches' = watches
          /\ mem' = mem
          /\ out' = out
          /\ pending' = pending]_vars

C9_Witness ==
  /\ pc = "Update"
  /\ m_updating
  /\ handler.name = "OnItemChanged" /\ handler.column = 0
  /\ pending = 1
  /\ running
  /\ Len(watches) = 1
  /\ watches[1].address = X1000

\* C10: whenever the panel is idle the table shows the watch list: one row
\* per entry in list order and the trailing row after them, every row key
\* being -1 or an index of the list.
C10_TableShowsList ==
  pc = "Idle" =>
    /\ table.rowCount = Len(watches) + 1
    /\ Len(table.rows) = table.rowCount
    /\ \A r \in 1..Len(table.rows) :
         table.rows[r].key = IF r <= Len(watches) THEN r - 1 ELSE -1
====
